---- MODULE Spec2Model ----
(***************************************************************************)
(* rss_to_mastodon.py: for every configured feed/account pair, fetch the   *)
(* feed, skip the entries whose digest is in the persisted id-set, post    *)
(* the others and rewrite the id-set after every successful post.          *)
(*                                                                         *)
(* The script is one sequential process.  One state of the model is one    *)
(* position of that process (pc), its local variables, and the id-store    *)
(* files on disk, which outlive the process.  Every external call (file    *)
(* I/O, HTTP, the Mastodon client) is a step with one outcome per result   *)
(* the call can have.  The process may be killed at any position and is    *)
(* started again by its scheduler.                                         *)
(***************************************************************************)
EXTENDS Integers, Sequences, FiniteSets, TLC

\* ------------------------------------------------------------------ bounds
\* The longest feed document.
MaxEntries == 2

\* The longest summary and description of an entry, in characters.
MaxSummary == 4

\* --------------------------------------------------------------- constants
\* line 129: remaining < 5
RATE_THRESHOLD == 5

\* line 82
MAX_CHARS == 500

\* Python's None, and a key that a dict-like entry does not hold.
None == "None"

\* Python truthiness of a string-or-None value (the operands of `or`, line 17).
Truthy(v) == v # None /\ v # ""

\* hashlib.sha256(raw.encode('utf-8')).hexdigest(): a fixed-length digest,
\* taken to be collision free.  It is never the empty string.
Sha256(raw) == <<"sha256", raw>>

\* Signals that evaluating an expression raised an exception.
Raised == <<"raised", "">>

\* line 16-18. entry.get(k) gives None for an absent key; the attribute
\* accesses entry.title and entry.link raise AttributeError for an absent key.
get_entry_id(entry) ==
    IF Truthy(entry.id) THEN Sha256(entry.id)
    ELSE IF Truthy(entry.guid) THEN Sha256(entry.guid)
    ELSE IF Truthy(entry.link) THEN Sha256(entry.link)
    ELSE IF entry.title = None \/ entry.link = None THEN Raised
    ELSE Sha256(entry.title \o entry.link)

\* ----------------------------------------------------------------- inputs
\* The entries a parsed feed may hold: with and without id, guid, link,
\* title and media.
Entry(id, guid, link, title, media) ==
    [id |-> id, guid |-> guid, link |-> link, title |-> title, media |-> media]

EntryPool ==
    { Entry("a", None, "l", "T", TRUE),      \* an ordinary entry with media
      Entry("b", None, "l", "T", FALSE),     \* an ordinary entry without media
      Entry("a", None, "l", None, FALSE),    \* an entry with no <title>
      Entry(None, None, "", "", FALSE),      \* every identifying field empty
      Entry(None, None, None, None, FALSE) } \* every identifying field absent

RECURSIVE SeqsUpTo(_, _)
SeqsUpTo(S, n) ==
    IF n = 0 THEN { <<>> }
    ELSE LET shorter == SeqsUpTo(S, n - 1)
         IN  shorter \cup { Append(s, x) : s \in { t \in shorter : Len(t) = n - 1 }, x \in S }

FeedDocs == SeqsUpTo(EntryPool, MaxEntries)

\* The names of the configured feed/account pairs; they are unique.  Two
\* pairs are configured: the least number with an earlier and a later pair.
Names == {1, 2}

\* The configurations, one record of feeds_config.json per pair; ok is FALSE
\* when one of the keys name, feed_url, mastodon_instance, access_token is
\* missing.  Every record is well formed, or one record is malformed (the
\* script stops at the first malformed record it reads, line 31, so the
\* records after that one do not matter).
FeedConfigs ==
    { [k \in Names |-> [name |-> k, ok |-> k # bad]] : bad \in {0} \cup Names }

\* The values mastodon.ratelimit_remaining may hold when it is read (line 128):
\* None, or a count on either side of the threshold.
Remaining(isNone, n) == [none |-> isNone, n |-> n]
RateValues ==
    { Remaining(TRUE, 0), Remaining(FALSE, RATE_THRESHOLD - 1), Remaining(FALSE, RATE_THRESHOLD) }

\* ------------------------------------------------------ the id-store file
\* posted_ids/<name>.json: absent, a complete JSON list of digests, or a
\* truncated (empty or partly written) file that json.load rejects.
AbsentFile == [kind |-> "absent", ids |-> <<>>]
CorruptFile == [kind |-> "corrupt", ids |-> <<>>]
JsonFile(l) == [kind |-> "json", ids |-> l]

\* list(posted_ids), line 143: the elements of the set in some order.
RECURSIVE list(_)
list(S) ==
    IF S = {} THEN <<>>
    ELSE LET x == CHOOSE y \in S : TRUE IN <<x>> \o list(S \ {x})

\* set(json.load(f)), line 42.
set(l) == { l[k] : k \in DOMAIN l }

\* The digest of an entry that earlier runs posted and that the feed no
\* longer lists.
OldId == Sha256("old")

\* The posted_ids directory when the model starts: the script never ran
\* (line 23 created an empty directory), or earlier runs left every pair an
\* id-set of entries that have since dropped out of the feed.
StoreDirs ==
    { [n \in Names |-> AbsentFile], [n \in Names |-> JsonFile(<< OldId >>)] }

\* ------------------------------------------------------- the status text
\* A text is a sequence of characters.  U+2026, the one character that line
\* 97 appends, is written "...".
Ellipsis == "..."

\* The characters str.strip() removes at both ends.
Whitespace == {" ", "\n"}

RECURSIVE lstrip(_)
lstrip(s) == IF s # <<>> /\ Head(s) \in Whitespace THEN lstrip(Tail(s)) ELSE s

RECURSIVE rstrip(_)
rstrip(s) ==
    IF s # <<>> /\ s[Len(s)] \in Whitespace THEN rstrip(SubSeq(s, 1, Len(s) - 1)) ELSE s

\* str.strip(), lines 85, 87, 88, 103.
strip(s) == rstrip(lstrip(s))

\* lines 11-14: re.sub('<.*?>', '', html) removes, from left to right, every
\* "<" with the text up to the nearest ">" after it when no line break lies
\* between them ("." matches no "\n"); a text without "<" is returned as it is.
RECURSIVE strip_html(_)
strip_html(html) ==
    IF \A k \in DOMAIN html : html[k] # "<" THEN html
    ELSE IF /\ Head(html) = "<"
            /\ \E j \in 2 .. Len(html) :
                   html[j] = ">" /\ \A k \in 2 .. j - 1 : html[k] \notin {">", "\n"}
         THEN LET j == CHOOSE j \in 2 .. Len(html) :
                           html[j] = ">" /\ \A k \in 2 .. j - 1 : html[k] # ">"
              IN  strip_html(SubSeq(html, j + 1, Len(html)))
         ELSE << Head(html) >> \o strip_html(Tail(html))

\* s[:n], line 97: the first n characters, all of s when it is shorter; for
\* a negative n, s without its last -n characters.
slice_to(s, n) ==
    IF n >= 0
    THEN SubSeq(s, 1, IF n < Len(s) THEN n ELSE Len(s))
    ELSE SubSeq(s, 1, IF Len(s) + n > 0 THEN Len(s) + n ELSE 0)

\* s.rsplit(" ", 1)[0], line 97: s up to its last space, all of s when it
\* holds no space.
rsplit_head(s) ==
    IF \E k \in DOMAIN s : s[k] = " "
    THEN LET last == CHOOSE k \in DOMAIN s :
                         s[k] = " " /\ \A j \in k + 1 .. Len(s) : s[j] # " "
         IN  SubSeq(s, 1, last - 1)
    ELSE s

\* lines 85-88.  entry.get(key, "") gives "" for an absent key and
\* entry.get(key) gives None, which `or` and `if` treat as they treat "":
\* an absent field is the empty text here.
clean_title(et) == strip_html(strip(et.title))
clean_summary(et) ==
    LET raw == IF et.summary # <<>> THEN et.summary ELSE et.description
    IN  IF raw # <<>> THEN strip_html(strip(raw)) ELSE <<>>
clean_link(et) == strip(et.link)

\* lines 91-93.
available_chars(et) ==
    MAX_CHARS - Len(clean_title(et) \o << "\n", "\n" >>) - Len(<< "\n" >> \o clean_link(et))

\* lines 96-97: the summary that goes into the text.
truncate(s, available) ==
    IF s # <<>> /\ Len(s) > available
    THEN rsplit_head(slice_to(s, available)) \o << Ellipsis >>
    ELSE s

\* lines 95-103.
format_status(et) ==
    LET title == clean_title(et)
        link_part == << "\n" >> \o clean_link(et)
        static_part == title \o << "\n", "\n" >>
        kept == truncate(clean_summary(et), available_chars(et))
        text == IF clean_summary(et) # <<>>
                THEN static_part \o kept \o link_part
                ELSE title \o link_part
    IN  strip(text)

\* A text of n characters ch.
Repeat(ch, n) == [k \in 1 .. n |-> ch]

\* The texts of the entry the pipeline is given: none (the pipeline below
\* does not depend on the text it posts).
NoText == [title |-> <<>>, summary |-> <<>>, description |-> <<>>, link |-> <<>>]

VARIABLES
    feed_configs,  \* the parsed configuration (line 27); fixed
    feed,          \* the entries the feed URL serves, newest first; fixed
    files,         \* name -> the id-store file of that name, on disk
    pc,            \* position of the process
    cause,         \* why the process ended: the exception, or where it was killed
    c,             \* index of the feed/account pair being processed (line 30)
    first_run,     \* line 38
    posted_ids,    \* lines 42, 44, 139
    loaded_ids,    \* history: posted_ids as loaded at line 42/44
    entries,       \* lines 52, 65
    e,             \* index of the entry being processed (line 77)
    media_ids,     \* lines 104, 121
    events,        \* history: the external calls made for the feed being processed
    fetch_failed,  \* history: index of the pair whose fetch failed, until the next is loaded
    first_posted,  \* history: the names for which a first run has posted
    durable,       \* history: <<name, digest>> written to the id-store after its post
    entry_text,    \* title, summary, description and link of the entry being formatted
    summary,       \* lines 86-87, 97
    status         \* line 103

vars == << feed_configs, feed, files, pc, cause, c, first_run, posted_ids, loaded_ids,
           entries, e, media_ids, events, fetch_failed, first_posted, durable,
           entry_text, summary, status >>

inputs == << feed_configs, feed >>
locals == << first_run, posted_ids, loaded_ids, entries, e, media_ids >>
history == << events, fetch_failed, first_posted, durable >>
texts == << entry_text, summary, status >>

name == feed_configs[c].name
entry == entries[e]
entry_id == get_entry_id(entry)

Running == pc \notin {"done", "crashed", "killed"}

Event(kind) == [kind |-> kind, e |-> e]

Init ==
    /\ feed_configs \in FeedConfigs
    /\ feed \in FeedDocs
    /\ files \in StoreDirs
    /\ pc = "start"
    /\ cause = ""
    /\ c = 1
    /\ first_run = FALSE
    /\ posted_ids = {}
    /\ loaded_ids = {}
    /\ entries = <<>>
    /\ e = 1
    /\ media_ids = <<>>
    /\ events = {}
    /\ fetch_failed = 0
    /\ first_posted = {}
    /\ durable = {}
    /\ entry_text = NoText
    /\ summary = <<>>
    /\ status = <<>>

\* An uncaught exception: the interpreter prints the traceback and exits.
Crash(why) ==
    /\ pc' = "crashed"
    /\ cause' = why

\* `continue` of the per-feed loop (lines 55, 60) and the end of its body.
NextFeed ==
    /\ pc' = "feed"
    /\ c' = c + 1

\* `continue` of the per-entry loop (lines 80, 133) and the end of its body.
NextEntry ==
    /\ pc' = "entry"
    /\ e' = e + 1

\* ------------------------------------------------------------ the process
\* lines 26-27: open and json.load of feeds_config.json; either may raise.
LoadConfig ==
    /\ pc = "start"
    /\ \/ /\ pc' = "feed"
          /\ UNCHANGED cause
       \/ Crash("config")
    /\ UNCHANGED << inputs, texts, files, c, locals, history >>

\* line 30, after the last pair: the script ends.
Finish ==
    /\ pc = "feed"
    /\ c > Len(feed_configs)
    /\ pc' = "done"
    /\ UNCHANGED << inputs, texts, files, cause, c, locals, history >>

\* lines 30-34: config["name"] ... config["access_token"]; a missing key
\* raises KeyError when the loop reaches that record.
ReadConfig ==
    /\ pc = "feed"
    /\ c <= Len(feed_configs)
    /\ IF feed_configs[c].ok
       THEN pc' = "load_store" /\ UNCHANGED cause
       ELSE Crash("config")
    /\ UNCHANGED << inputs, texts, files, c, locals, history >>

\* LoadStore creating the id-set file, with an empty list, when it finds none.
LoadStore_CreatesFile ==
    /\ pc = "load_store"
    /\ LET file == files[name] IN
       \/ /\ file.kind = "absent"
          /\ first_run' = TRUE
          /\ posted_ids' = {}
          /\ loaded_ids' = {}
          /\ files' = [files EXCEPT ![name] = JsonFile(<< >>)]
          /\ pc' = "fetch"
          /\ UNCHANGED cause
       \/ /\ file.kind = "json"
          /\ first_run' = FALSE
          /\ posted_ids' = set(file.ids)
          /\ loaded_ids' = set(file.ids)
          /\ pc' = "fetch"
          /\ UNCHANGED << cause, files >>
       \/ /\ file.kind = "corrupt"
          /\ first_run' = FALSE
          /\ Crash("store")
          /\ UNCHANGED << posted_ids, loaded_ids, files >>
    /\ events' = {}
    /\ fetch_failed' = 0
    /\ UNCHANGED << inputs, texts, c, entries, e, media_ids, first_posted, durable >>

\* lines 37-44: first_run and posted_ids; json.load raises on a file that
\* holds no complete JSON document, outside any try.
LoadStore ==
    /\ pc = "load_store"
    /\ LET file == files[name] IN
       \/ /\ file.kind = "absent"
          /\ first_run' = TRUE
          /\ posted_ids' = {}
          /\ loaded_ids' = {}
          /\ pc' = "fetch"
          /\ UNCHANGED cause
       \/ /\ file.kind = "json"
          /\ first_run' = FALSE
          /\ posted_ids' = set(file.ids)
          /\ loaded_ids' = set(file.ids)
          /\ pc' = "fetch"
          /\ UNCHANGED cause
       \/ /\ file.kind = "corrupt"
          /\ first_run' = FALSE
          /\ Crash("store")
          /\ UNCHANGED << posted_ids, loaded_ids >>
    /\ events' = {}
    /\ fetch_failed' = 0
    /\ UNCHANGED << inputs, texts, files, c, entries, e, media_ids, first_posted, durable >>


\* FetchFail without the try/except of lines 47-55: the exception ends the run.
FetchFail_Uncaught ==
    /\ pc = "fetch"
    /\ Crash("fetch")
    /\ fetch_failed' = c
    /\ UNCHANGED << inputs, texts, files, c, locals, events, first_posted, durable >>

\* lines 47-55: requests.get, raise_for_status or feedparser.parse raised.
FetchFail ==
    /\ pc = "fetch"
    /\ NextFeed
    /\ fetch_failed' = c
    /\ UNCHANGED << inputs, texts, files, cause, locals, events, first_posted, durable >>


\* FetchOk without the first-run restriction of lines 63-65.
FetchOk_NoRestriction ==
    /\ pc = "fetch"
    /\ IF feed = <<>>
       THEN /\ NextFeed
            /\ entries' = feed
       ELSE /\ pc' = "client"
            /\ entries' = feed
            /\ UNCHANGED c
    /\ UNCHANGED << inputs, texts, files, cause, first_run, posted_ids, loaded_ids, e, media_ids, history >>

\* lines 47-65: the feed was fetched; an empty feed ends the pair, a first
\* run keeps the first entry only.
FetchOk ==
    /\ pc = "fetch"
    /\ IF feed = <<>>
       THEN /\ NextFeed
            /\ entries' = feed
       ELSE /\ pc' = "client"
            /\ entries' = IF first_run THEN << feed[1] >> ELSE feed
            /\ UNCHANGED c
    /\ UNCHANGED << inputs, texts, files, cause, first_run, posted_ids, loaded_ids, e, media_ids, history >>

\* lines 67-75: Mastodon(...); the constructor may raise, outside any try.
InitClient ==
    /\ pc = "client"
    /\ \/ /\ pc' = "entry"
          /\ e' = 1
          /\ UNCHANGED cause
       \/ /\ Crash("client")
          /\ UNCHANGED e
    /\ UNCHANGED << inputs, texts, files, c, first_run, posted_ids, loaded_ids, entries, media_ids, history >>

\* line 77, after the last entry: on to the next pair.
EndEntries ==
    /\ pc = "entry"
    /\ e > Len(entries)
    /\ NextFeed
    /\ UNCHANGED << inputs, texts, files, cause, locals, history >>


\* CheckEntry without the test `entry_id in posted_ids` of line 79.
CheckEntry_NoDedup ==
    /\ pc = "entry"
    /\ e <= Len(entries)
    /\ IF entry_id = Raised
       THEN /\ Crash("identity")
            /\ UNCHANGED e
       ELSE /\ pc' = "media"
            /\ UNCHANGED << cause, e >>
    /\ UNCHANGED << inputs, texts, files, c, first_run, posted_ids, loaded_ids, entries, media_ids, history >>

\* lines 77-80: the digest of the entry; skip an entry already posted.
\* get_entry_id is called outside any try.
CheckEntry ==
    /\ pc = "entry"
    /\ e <= Len(entries)
    /\ IF entry_id = Raised
       THEN /\ Crash("identity")
            /\ UNCHANGED e
       ELSE IF entry_id \in posted_ids
       THEN /\ NextEntry
            /\ UNCHANGED cause
       ELSE /\ pc' = "media"
            /\ UNCHANGED << cause, e >>
    /\ UNCHANGED << inputs, texts, files, c, first_run, posted_ids, loaded_ids, entries, media_ids, history >>

\* Media with a `continue` in the handler of line 123.
Media_FailureSkips ==
    /\ pc = "media"
    /\ IF entry.media
       THEN \/ /\ media_ids' = << "media" >>
               /\ events' = events \cup { Event("upload") }
               /\ pc' = "ratelimit"
               /\ UNCHANGED e
            \/ /\ media_ids' = << >>
               /\ events' = events \cup { Event("upload"), Event("upload_failed") }
               /\ NextEntry
       ELSE /\ media_ids' = << >>
            /\ pc' = "ratelimit"
            /\ UNCHANGED << events, e >>
    /\ UNCHANGED << inputs, texts, files, cause, c, first_run, posted_ids, loaded_ids, entries,
                    fetch_failed, first_posted, durable >>

\* lines 82-124: format the status (Format below; no position of the
\* pipeline depends on the text), then fetch and
\* upload the first media reference, if any; a failure is caught (line 123)
\* and leaves media_ids empty.
Media ==
    /\ pc = "media"
    /\ IF entry.media
       THEN \/ /\ media_ids' = << "media" >>
               /\ events' = events \cup { Event("upload") }
            \/ /\ media_ids' = << >>
               /\ events' = events \cup { Event("upload"), Event("upload_failed") }
       ELSE /\ media_ids' = << >>
            /\ UNCHANGED events
    /\ pc' = "ratelimit"
    /\ UNCHANGED << inputs, texts, files, cause, c, first_run, posted_ids, loaded_ids, entries, e,
                    fetch_failed, first_posted, durable >>


\* RateLimit without the `continue` of line 133.
RateLimit_NoSkip ==
    /\ pc = "ratelimit"
    /\ \E remaining \in RateValues :
          IF ~remaining.none /\ remaining.n < RATE_THRESHOLD
          THEN /\ pc' = "post"
               /\ events' = events \cup { Event("ratelimit"), Event("rate_skip") }
               /\ UNCHANGED e
          ELSE /\ pc' = "post"
               /\ events' = events \cup { Event("ratelimit") }
               /\ UNCHANGED e
    /\ UNCHANGED << inputs, texts, files, cause, c, first_run, posted_ids, loaded_ids, entries,
                    media_ids, fetch_failed, first_posted, durable >>

\* lines 128-133: skip the entry when fewer than 5 requests remain.
RateLimit ==
    /\ pc = "ratelimit"
    /\ \E remaining \in RateValues :
          IF ~remaining.none /\ remaining.n < RATE_THRESHOLD
          THEN /\ NextEntry
               /\ events' = events \cup { Event("ratelimit"), Event("rate_skip") }
          ELSE /\ pc' = "post"
               /\ events' = events \cup { Event("ratelimit") }
               /\ UNCHANGED e
    /\ UNCHANGED << inputs, texts, files, cause, c, first_run, posted_ids, loaded_ids, entries,
                    media_ids, fetch_failed, first_posted, durable >>

\* line 136: mastodon.status_post returned.
PostOk ==
    /\ pc = "post"
    /\ pc' = "posted"
    /\ events' = events \cup { Event("publish") }
    /\ first_posted' = IF first_run THEN first_posted \cup {name} ELSE first_posted
    /\ UNCHANGED << inputs, texts, files, cause, c, locals, fetch_failed, durable >>

\* PostFail with the record of lines 139-144 made in a `finally`.
PostFail_Records ==
    /\ pc = "post"
    /\ pc' = "open_store"
    /\ posted_ids' = posted_ids \cup { entry_id }
    /\ events' = events \cup { Event("publish_failed") }
    /\ UNCHANGED << inputs, texts, files, cause, c, first_run, loaded_ids, entries, e, media_ids,
                    fetch_failed, first_posted, durable >>

\* line 136: mastodon.status_post raised; control goes to line 146.
PostFail ==
    /\ pc = "post"
    /\ pc' = "except"
    /\ events' = events \cup { Event("publish_failed") }
    /\ UNCHANGED << inputs, texts, files, cause, c, locals, fetch_failed, first_posted, durable >>

\* MarkPosted without posted_ids.add of line 139.
MarkPosted_NoAdd ==
    /\ pc = "posted"
    /\ IF entry.title = None
       THEN pc' = "except"
       ELSE pc' = "open_store"
    /\ UNCHANGED << inputs, texts, files, cause, c, locals, history >>

\* lines 137-139: print(entry.title) raises AttributeError for an entry
\* without title, inside the try; otherwise the digest joins posted_ids.
MarkPosted ==
    /\ pc = "posted"
    /\ IF entry.title = None
       THEN /\ pc' = "except"
            /\ UNCHANGED posted_ids
       ELSE /\ pc' = "open_store"
            /\ posted_ids' = posted_ids \cup { entry_id }
    /\ UNCHANGED << inputs, texts, files, cause, c, first_run, loaded_ids, entries, e, media_ids, history >>

\* line 142: open(id_store_path, "w") creates or truncates the file, or
\* raises; the handler of line 146 catches that.
OpenStore ==
    /\ pc = "open_store"
    /\ \/ /\ files' = [files EXCEPT ![name] = CorruptFile]
          /\ pc' = "dump"
          /\ UNCHANGED events
       \/ /\ pc' = "except"
          /\ events' = events \cup { Event("save_failed") }
          /\ UNCHANGED files
    /\ UNCHANGED << inputs, texts, cause, c, locals, fetch_failed, first_posted, durable >>


\* DumpStore writing the new digest alone instead of the whole set.
DumpStore_NewIdOnly ==
    /\ pc = "dump"
    /\ \/ /\ files' = [files EXCEPT ![name] = JsonFile(<< entry_id >>)]
          /\ durable' = durable \cup { << name, entry_id >> }
          /\ events' = events \cup { Event("saved") }
          /\ pc' = "sleep"
       \/ /\ pc' = "except"
          /\ events' = events \cup { Event("save_failed") }
          /\ UNCHANGED << files, durable >>
    /\ UNCHANGED << inputs, texts, cause, c, locals, fetch_failed, first_posted >>

\* lines 143-144: json.dump and the close of the file write the whole list,
\* or raise and leave the file truncated; the handler of line 146 catches that.
DumpStore ==
    /\ pc = "dump"
    /\ \/ /\ files' = [files EXCEPT ![name] = JsonFile(list(posted_ids))]
          /\ durable' = durable \cup { << name, entry_id >> }
          /\ events' = events \cup { Event("saved") }
          /\ pc' = "sleep"
       \/ /\ pc' = "except"
          /\ events' = events \cup { Event("save_failed") }
          /\ UNCHANGED << files, durable >>
    /\ UNCHANGED << inputs, texts, cause, c, locals, fetch_failed, first_posted >>

\* line 145: time.sleep(15), then the next entry.
Sleep ==
    /\ pc = "sleep"
    /\ NextEntry
    /\ events' = events \cup { Event("sleep") }
    /\ UNCHANGED << inputs, texts, files, cause, c, first_run, posted_ids, loaded_ids, entries,
                    media_ids, fetch_failed, first_posted, durable >>

\* Except as a handler that logs and raises the exception again.
Except_Reraise ==
    /\ pc = "except"
    /\ Crash("except")
    /\ UNCHANGED << inputs, texts, files, c, locals, history >>

\* lines 146-147: the handler prints entry.title, which raises
\* AttributeError for an entry without title; nothing catches that.
Except ==
    /\ pc = "except"
    /\ IF entry.title = None
       THEN /\ Crash("except")
            /\ UNCHANGED e
       ELSE /\ NextEntry
            /\ UNCHANGED cause
    /\ UNCHANGED << inputs, texts, files, c, first_run, posted_ids, loaded_ids, entries, media_ids, history >>

\* The process is killed (signal, power loss) wherever it is.
Kill ==
    /\ Running
    /\ pc' = "killed"
    /\ cause' = pc
    /\ UNCHANGED << inputs, texts, files, c, locals, history >>

\* The scheduler starts the script again: a new process, the same disk.
Restart ==
    /\ ~Running
    /\ pc' = "start"
    /\ cause' = ""
    /\ c' = 1
    /\ first_run' = FALSE
    /\ posted_ids' = {}
    /\ loaded_ids' = {}
    /\ entries' = <<>>
    /\ e' = 1
    /\ media_ids' = <<>>
    /\ events' = {}
    /\ fetch_failed' = 0
    /\ UNCHANGED << inputs, texts, files, first_posted, durable >>

\* One step of the running script.
Step ==
    \/ LoadConfig
    \/ Finish
    \/ ReadConfig
    \/ LoadStore
    \/ FetchFail
    \/ FetchOk
    \/ InitClient
    \/ EndEntries
    \/ CheckEntry
    \/ Media
    \/ RateLimit
    \/ PostOk
    \/ PostFail
    \/ MarkPosted
    \/ OpenStore
    \/ DumpStore
    \/ Sleep
    \/ Except

Next ==
    \/ Step
    \/ Kill
    \/ Restart

\* The script is run again and again and may be killed at any position.
Spec == Init /\ [][Next]_vars

NextUnkilled ==
    \/ Step
    \/ Restart

\* The script is run again and again and every run is left to end by itself.
SpecUnkilled == Init /\ [][NextUnkilled]_vars

\* ------------------------------------------------------- the formatter
\* The characters of a summary: a letter, a space and the two brackets of a tag.
Chars == {"x", " ", "<", ">"}

Summaries == SeqsUpTo(Chars, MaxSummary)
Descriptions == { <<>>, << "d" >> }

\* Titles: none, short ones, one with a tag and spaces around it, and long
\* ones that leave the summary from no room at all to more than it needs.
Titles ==
    { <<>>, << "t" >>, << " ", "<", "b", ">", "t", " " >> }
        \cup { Repeat("t", MAX_CHARS - k) : k \in 0 .. MaxSummary + 4 }

Links == { <<>>, << "l" >>, << "l", " " >> }

EntryTexts ==
    [title : Titles, summary : Summaries, description : Descriptions, link : Links]

\* The pipeline has an entry to format (line 82): any entry text.
InitFormat ==
    /\ feed_configs = [k \in Names |-> [name |-> k, ok |-> TRUE]]
    /\ feed = <<>>
    /\ files = [n \in Names |-> AbsentFile]
    /\ pc = "format"
    /\ cause = ""
    /\ c = 1
    /\ first_run = TRUE
    /\ posted_ids = {}
    /\ loaded_ids = {}
    /\ entries = <<>>
    /\ e = 1
    /\ media_ids = <<>>
    /\ events = {}
    /\ fetch_failed = 0
    /\ first_posted = {}
    /\ durable = {}
    /\ entry_text \in EntryTexts
    /\ summary = <<>>
    /\ status = <<>>

\* lines 82-103: the status text of the entry.
Format ==
    /\ pc = "format"
    /\ summary' = truncate(clean_summary(entry_text), available_chars(entry_text))
    /\ status' = format_status(entry_text)
    /\ pc' = "status"
    /\ UNCHANGED << inputs, files, cause, c, locals, history, entry_text >>

NextFormat == Format

\* The formatter applied to every entry text.
SpecFormat == InitFormat /\ [][NextFormat]_vars

\* ----------------------------------------------------------------- claims
\* The positions inside the per-entry loop of the pair being processed.
InEntryLoop ==
    pc \in {"entry", "media", "ratelimit", "post", "posted", "open_store", "dump", "sleep", "except"}

\* The per-entry loop of the pair has run to its end (line 77 finds no entry left).
LoopEnded == pc = "entry" /\ e > Len(entries)

Published(k) == [kind |-> "publish", e |-> k] \in events
Saved(k) == [kind |-> "saved", e |-> k] \in events
RateSkipped(k) == [kind |-> "rate_skip", e |-> k] \in events
SaveFailed(k) == [kind |-> "save_failed", e |-> k] \in events

\* An entry as feeds usually list it: with an id and a title.
Ordinary(en) == Truthy(en.id) /\ en.title # None

\* A feed of ordinary entries, no two with the same digest.
OrdinaryFeed ==
    /\ \A k \in DOMAIN feed : Ordinary(feed[k])
    /\ \A k, j \in DOMAIN feed : get_entry_id(feed[k]) = get_entry_id(feed[j]) => k = j

\* Every record of the configuration holds the four required keys.
WellFormed == \A k \in DOMAIN feed_configs : feed_configs[k].ok

\* C1: once a first run of a pair has posted and the run has written the
\* pair's id-set, no later run over the unchanged feed posts anything for
\* that pair (here for a well-formed configuration and a feed of ordinary
\* entries): a post made when an id-set was loaded never follows a
\* first-run post of the pair.
C1_SecondRunPostsNothing ==
    [][(WellFormed /\ OrdinaryFeed /\ pc = "post" /\ pc' = "posted" /\ ~first_run) =>
           name \notin first_posted]_vars

\* On a first run only the first entry of the feed is considered, and every
\* call made for the pair is made for that entry.
FirstRunOneEntry ==
    (InEntryLoop /\ first_run) =>
        /\ entries = << feed[1] >>
        /\ \A ev \in events : ev.e = 1

\* C2, as claimed: on a first run only the first entry of the feed is
\* considered, at most one post is made, and when that post succeeded the
\* id-set file holds exactly one digest once the pair has been processed
\* (the other pair writes another file).
C2_FirstRunOneDigest ==
    /\ FirstRunOneEntry
    /\ (LoopEnded /\ first_run /\ Published(1)) =>
           (files[name].kind = "json" /\ Len(files[name].ids) = 1)

\* C2, amended: ... and when that post succeeded and the write of the id-set
\* that follows it completed, the id-set file holds exactly one digest, the
\* digest of that entry.
C2_FirstRunOneDigestWritten ==
    /\ FirstRunOneEntry
    /\ (InEntryLoop /\ first_run /\ Saved(1)) =>
           files[name] = JsonFile(<< get_entry_id(feed[1]) >>)

C2_Witness ==
    LoopEnded /\ first_run /\ Len(feed) > 1 /\ Published(1) /\ Saved(1)

\* C3: an entry whose digest is in the id-set loaded for the pair is
\* skipped: no media upload, no rate-limit query, no publish call and no
\* write of the id-set is made for it.
C3_LoadedIdSkipped ==
    InEntryLoop =>
        \A k \in 1 .. Len(entries) :
            (get_entry_id(entries[k]) \in loaded_ids) =>
                /\ \A ev \in events : ev.e # k
                /\ (k = e => pc = "entry")

C3_Witness ==
    /\ pc = "entry"
    /\ e = 3
    /\ get_entry_id(entries[1]) \in loaded_ids
    /\ Published(2)

C5_FailedPostSkipsEntry ==
    [][(pc = "except" /\ [kind |-> "publish_failed", e |-> e] \in events /\ pc' # "killed") =>
           (posted_ids' = posted_ids /\ files' = files /\ pc' = "entry" /\ e' = e + 1)]_vars

\* C6: once an entry of a pair was skipped for the rate limit, neither that
\* entry nor a later entry of the pair is published in the run (here for a
\* feed of ordinary entries).
C6_NoPostAfterRateSkip ==
    OrdinaryFeed =>
        \A k, j \in 1 .. Len(entries) : (RateSkipped(k) /\ Published(j)) => j < k

\* C7: an entry skipped for the rate limit is neither published nor
\* recorded, and skipping it changes neither posted_ids nor the id-set file:
\* what was posted and recorded before stays so.
C7_RateSkipNotRecorded ==
    /\ [](\A k \in 1 .. Len(entries) :
            RateSkipped(k) =>
                /\ \A ev \in events : ev.e = k => ev.kind \in {"upload", "upload_failed", "ratelimit", "rate_skip"}
                /\ get_entry_id(entries[k]) \in posted_ids =>
                       \E j \in 1 .. Len(entries) :
                           j # k /\ Published(j) /\ get_entry_id(entries[j]) = get_entry_id(entries[k]))
    /\ [][(pc = "ratelimit" /\ pc' = "entry") =>
              (posted_ids' = posted_ids /\ files' = files /\ durable' = durable
               /\ events \subseteq events' /\ Event("rate_skip") \in events')]_vars

C7_Witness ==
    /\ pc = "entry"
    /\ e = 3
    /\ Published(1)
    /\ Saved(1)
    /\ RateSkipped(2)
    /\ get_entry_id(entries[1]) \in set(files[name].ids)
    /\ get_entry_id(entries[2]) \notin set(files[name].ids)

\* C8: when the fetch of a pair fails, nothing is uploaded or published for
\* the pair, its id-set file stays as it was loaded, and the loop goes on
\* with the next pair (or ends after the last) as it does after any pair.
C8_FetchFailureSkipsFeed ==
    fetch_failed # 0 =>
        /\ events = {}
        /\ posted_ids = loaded_ids
        /\ LET file == files[feed_configs[fetch_failed].name] IN
               IF first_run THEN file = AbsentFile
               ELSE file.kind = "json" /\ set(file.ids) = loaded_ids
        /\ c = fetch_failed + 1
        /\ pc \in {"feed", "load_store", "done", "crashed", "killed"}
        /\ pc = "crashed" => cause = "config"
        /\ pc = "killed" => cause \in {"feed", "load_store"}

C8_Witness ==
    /\ fetch_failed = 1
    /\ c = 2
    /\ pc = "load_store"

\* C9: with a well-formed configuration only a failure to load the
\* configuration ends the run early: the process never exits on an
\* exception raised while handling a pair.
C9_OnlyConfigErrorFatal ==
    (WellFormed /\ pc = "crashed") => cause = "config"

\* C10: with a malformed record in the configuration no feed is fetched and
\* no entry is processed.
C10_MalformedConfigFetchesNothing ==
    ~WellFormed =>
        (pc \notin {"client"} /\ ~InEntryLoop)

\* C11: when the write of the id-set fails after a successful post, the
\* run does not end: the handler goes on with the next entry of the pair,
\* in the same run and the same pair, and no run is ever found crashed at
\* an entry whose write failed.
C11_SaveFailureGoesOn ==
    /\ [](\A k \in 1 .. Len(entries) :
            SaveFailed(k) =>
                /\ Published(k)
                /\ ~(pc = "crashed" /\ e = k))
    /\ [][(pc = "except" /\ SaveFailed(e) /\ pc' # "killed") =>
              (pc' = "entry" /\ e' = e + 1 /\ c' = c /\ cause' = cause
               /\ entries' = entries /\ posted_ids' = posted_ids)]_vars

C11_Witness ==
    /\ pc = "entry"
    /\ e = 3
    /\ SaveFailed(1)
    /\ Published(2)

\* C12: when the process is killed during the write of the id-set (lines
\* 142-144), the file holds the complete set of before the write (no file
\* on a first run) or the complete new set, never a truncated content (here
\* for a well-formed configuration and a feed of ordinary entries).
C12_WriteIsAtomic ==
    (WellFormed /\ OrdinaryFeed /\ pc = "killed" /\ cause \in {"open_store", "dump"}) =>
        \/ first_run /\ files[name] = AbsentFile
        \/ /\ files[name].kind = "json"
           /\ set(files[name].ids) \in { posted_ids \ { entry_id }, posted_ids }

\* The summary has room: title and link leave it one character or more.
HasRoom == available_chars(entry_text) > 0

\* C13: the status text is at most MAX_CHARS characters long (here for the
\* entries whose title and link leave the summary room).
C13_StatusWithinMaxChars ==
    (pc = "status" /\ HasRoom) => Len(status) <= MAX_CHARS

\* C14: a summary longer than its room is cut to a prefix that is followed
\* by whitespace in the summary, and the ellipsis is appended to that
\* prefix; a summary that fits is used as it is (here for the entries whose
\* title and link leave the summary room).
C14_TruncatesAtWhitespace ==
    (pc = "status" /\ HasRoom) =>
        LET original == clean_summary(entry_text) IN
            IF Len(original) > available_chars(entry_text)
            THEN \E n \in 0 .. Len(original) - 1 :
                     /\ summary = SubSeq(original, 1, n) \o << Ellipsis >>
                     /\ original[n + 1] \in Whitespace
            ELSE summary = original

\* No identifier can be derived: id, guid, link and title are empty or absent.
NoIdentifier(en) ==
    ~Truthy(en.id) /\ ~Truthy(en.guid) /\ ~Truthy(en.link) /\ ~Truthy(en.title)

\* C15: an entry without identifier is skipped: line 79 goes on with the
\* next entry, no call is made for the entry and nothing is recorded (here
\* for a well-formed configuration).
C15_NoIdentifierSkipped ==
    [][(WellFormed /\ pc = "entry" /\ e <= Len(entries) /\ NoIdentifier(entry) /\ pc' # "killed") =>
           (pc' = "entry" /\ e' = e + 1 /\ posted_ids' = posted_ids
            /\ files' = files /\ events' = events)]_vars

PublishCalled(k) ==
    Published(k) \/ [kind |-> "publish_failed", e |-> k] \in events

Slept(k) == [kind |-> "sleep", e |-> k] \in events

\* C16: after a successful publish call the process sleeps (line 145)
\* before it makes another publish call (here for the entries of one pair,
\* a well-formed configuration and a feed of ordinary entries).
C16_SleepBeforeNextPublish ==
    (WellFormed /\ OrdinaryFeed) =>
        \A k, j \in 1 .. Len(entries) :
            (k < j /\ Published(k) /\ PublishCalled(j)) => Slept(k)

UploadFailed(k) == [kind |-> "upload_failed", e |-> k] \in events
RateChecked(k) == [kind |-> "ratelimit", e |-> k] \in events

\* C17: a failed media upload does not end the handling of the entry: the
\* next step is the rate-limit check of the same entry, media_ids is empty
\* then and when status_post is called, and once the loop has passed the
\* entry its rate limit was read and the entry was skipped for the rate
\* limit or status_post was called for it.
C17_UploadFailureGoesOn ==
    /\ [](\A k \in 1 .. Len(entries) :
            UploadFailed(k) =>
                /\ (k = e /\ pc \in {"ratelimit", "post"}) => media_ids = << >>
                /\ (k < e \/ pc \in {"post", "posted", "open_store", "dump", "sleep", "except"}) =>
                       RateChecked(k)
                /\ k < e => (RateSkipped(k) \/ PublishCalled(k)))
    /\ [][(pc = "media" /\ pc' # "killed") => (pc' = "ratelimit" /\ e' = e /\ c' = c)]_vars
    /\ [][(pc = "post" /\ pc' \in {"posted", "except"} /\ UploadFailed(e)) =>
              media_ids = << >>]_vars

C17_Witness ==
    /\ pc = "posted"
    /\ UploadFailed(e)
    /\ Published(e)
    /\ media_ids = << >>

\* C18: a pair's id-set file comes into being only at the write that
\* follows a successful post of a first run; while a first run has not
\* posted, and after it has ended the pair without a post, the file is
\* absent; and a run that finds no file is a first run.
C18_FileCreatedByPublish ==
    /\ [][\A n \in Names :
              (files[n] = AbsentFile /\ files'[n] # AbsentFile) =>
                  (pc = "open_store" /\ n = name /\ first_run /\ Published(e))]_vars
    /\ []((first_run /\ (InEntryLoop \/ pc \in {"fetch", "client"})
             /\ \A k \in 1 .. MaxEntries : ~Published(k)) =>
              files[name] = AbsentFile)
    /\ []((first_run /\ pc \in {"feed", "done"} /\ c > 1
             /\ \A k \in 1 .. MaxEntries : ~Published(k)) =>
              files[feed_configs[c - 1].name] = AbsentFile)
    /\ [][(pc = "load_store" /\ pc' = "fetch") =>
              first_run' = (files[name] = AbsentFile)]_vars

C18_Witness ==
    /\ pc = "feed"
    /\ c = 2
    /\ first_run
    /\ [kind |-> "publish_failed", e |-> 1] \in events
    /\ files[feed_configs[1].name] = AbsentFile

\* The run is, or has ended, inside the per-entry loop of the pair.
AtEntryLoop ==
    \/ InEntryLoop
    \/ pc = "killed" /\ cause \in {"entry", "media", "ratelimit", "post", "posted",
                                   "open_store", "dump", "sleep", "except"}
    \/ pc = "crashed" /\ cause \in {"identity", "except"}

\* C19: every digest in the id-set file of the pair being processed was
\* loaded at the start of the run or is the digest of an entry of the feed
\* whose publish call succeeded in this run; so the digest of an entry that
\* was skipped, rate-limited or whose publish call failed is in the file
\* only if it was loaded or is the digest of a published entry as well.
C19_PersistedWasLoadedOrPublished ==
    (AtEntryLoop /\ files[name].kind = "json") =>
        set(files[name].ids) \subseteq
            loaded_ids \cup { get_entry_id(entries[k]) : k \in { j \in 1 .. Len(entries) : Published(j) } }

C19_Witness ==
    /\ pc = "entry"
    /\ e = 3
    /\ [kind |-> "publish_failed", e |-> 1] \in events
    /\ Saved(2)
    /\ loaded_ids # {}
    /\ set(files[name].ids) = loaded_ids \cup { get_entry_id(entries[2]) }
    /\ get_entry_id(entries[1]) \notin set(files[name].ids)

\* C20: in one run of a pair no digest is published twice: once an entry
\* was published, no call is made for a later entry with the same digest,
\* whether the write of the id-set succeeded or not.
C20_NoDigestPublishedTwice ==
    AtEntryLoop =>
        \A k, j \in 1 .. Len(entries) :
            (k < j /\ Published(k) /\ get_entry_id(entries[k]) = get_entry_id(entries[j])) =>
                /\ \A ev \in events : ev.e # j
                /\ (j = e => pc \in {"entry", "killed"})

C20_Witness ==
    /\ pc = "entry"
    /\ e = 3
    /\ get_entry_id(entries[1]) = get_entry_id(entries[2])
    /\ Published(1)
    /\ SaveFailed(1)
    /\ \A ev \in events : ev.e = 1

====
